---------------------------- MODULE Spec2Model ----------------------------
(***************************************************************************)
(* The repeated-run pipeline of the thesis repository:                     *)
(*   db/create_sentences.py      the sentence indexer   (populate_db)      *)
(*   db/create_runs.py           the run detector       (main_loop_streamed)*)
(*   cleaning/clean_podcasts/remove_seq.py   the run remover (__main__)    *)
(* A document is a JSON list of token lists; the token list STOP_SENTINEL  *)
(* marks a line boundary.  The two database tables are sets of rows.       *)
(***************************************************************************)
EXTENDS Integers, Sequences, FiniteSets, TLC

(* ------------------------------ bounds --------------------------------- *)
\* longest document (remover alone) and longest corpus (whole pipeline)
MaxDocLen == 4
\* most rows the repetition_runs table holds when the remover starts alone
MaxRuns == 2
\* how often one stage is started at most
MaxPasses == 2
\* how many store errors the database raises at most
MaxFaults == 1

(* ------------------------------ sentences ------------------------------ *)
STOP_SENTINEL == <<"i", "love", "blueberry", "waffles">>
SentA == <<"a">>
SentB == <<"b", "c">>
SentEmpty == << >>

\* " ".join(sentence)
RECURSIVE Join(_)
Join(sentence) ==
    IF Len(sentence) = 0 THEN ""
    ELSE IF Len(sentence) = 1 THEN sentence[1]
    ELSE sentence[1] \o " " \o Join(Tail(sentence))

\* xxhash.xxh64(text).hexdigest(): a digest determined by the text alone;
\* distinct texts of the model have distinct digests
xxh64(text) == "xxh64:" \o text

hash_sentence(sentence) == xxh64(Join(sentence))

\* the documents of at most n elements over the sentences in S
DocsOver(S, n) == UNION {[1..k -> S] : k \in 0..n}

FileNums == {1, 2}

VARIABLES
    files,            \* file_num -> the document in slc<file_num>.json
    malformed,        \* the files whose content is not a JSON list of lists
    faults,           \* how many store errors the database may still raise
    sentences,        \* table sentences: set of rows
    repetition_runs,  \* table repetition_runs: set of rows
    runs_table,       \* whether table repetition_runs exists
    \* ---- indexer (create_sentences.py, populate_db) ----
    ipc,              \* "files" | "walk" | "done"
    input_todo,       \* the files of input_file_paths still to process
    i_file_idx,
    data,
    pos,              \* how many elements of data the for loop has consumed
    line_idx,
    sent_idx,
    offset,
    buffer,
    generated,        \* history: the rows appended to buffer, each with the
                      \* call and the index in data it was generated at
    dropped,          \* history: the rows of the batches that were rolled back
    calls,            \* history: how many times populate_db was started
    \* ---- detector (create_runs.py, main_loop_streamed) ----
    dpc,              \* "idle" | "scan" | "done" | "failed" | "aborted"
    d_threshold,      \* parameter threshold
    batch_size,       \* parameter batch_size
    hashes,           \* the candidate hashes still to scan
    batch,
    emitted,          \* history: every row handed to insert_run_occurrence_batch
    passes,           \* history: how many times main_loop_streamed was started
    started_from,     \* history: dpc when main_loop_streamed was last started
    scans,            \* history: the hashes whose scan has ended, in order
    flushed,          \* history: len(batch) at each executemany of flush_batch
    \* ---- remover (remove_seq.py) ----
    rpc,              \* "idle" | "load" | "walk" | "save" | "done"
    r_threshold,      \* threshold (remove_seq.py:51)
    slc_todo,         \* the files of slc_files still to process
    file_idx,
    sentence_list,
    run_map,          \* (line_num, sent_num) -> (hash, run_length)
    output_list,
    line_num,
    sent_num,
    i,
    w2v,              \* file_num -> the cleaned document written for it
    kept,             \* history: input indices appended to output_list
    visits,           \* history: the run starts the walk has reached
    \* ---- materializer (create_sentence_texts.py, populate_sentence_texts) ----
    sentence_texts,   \* table sentence_texts: set of rows
    mpc,              \* "idle" | "files" | "entries" | "done"
    m_batch_size,     \* parameter batch_size
    file_groups,      \* the groups of file_groups still to process
    m_file_num,
    m_data,
    line_start_map,
    entries,          \* the entries of the group at hand still to resolve
    m_buffer,
    resolved          \* history: hash and outcome of every entry resolved

rvars == <<rpc, r_threshold, slc_todo, file_idx, sentence_list, run_map,
           output_list, line_num, sent_num, i, w2v, kept, visits>>
dbvars == <<sentences, repetition_runs, runs_table>>
ivars == <<ipc, input_todo, i_file_idx, data, pos, line_idx, sent_idx, offset,
           buffer, generated, dropped, calls>>
dvars == <<dpc, d_threshold, batch_size, hashes, batch, emitted, passes,
           started_from, scans, flushed>>
mvars == <<sentence_texts, mpc, m_batch_size, file_groups, m_file_num, m_data,
           line_start_map, entries, m_buffer, resolved>>
env == <<files, malformed, faults>>
vars == <<env, dbvars, ivars, dvars, rvars, mvars>>

(* ------------------------------ helpers -------------------------------- *)
\* the elements of a finite set of integers in ascending order
RECURSIVE Ascending(_)
Ascending(S) ==
    IF S = {} THEN << >>
    ELSE LET m == CHOOSE x \in S : \A y \in S : x <= y
         IN  <<m>> \o Ascending(S \ {m})

\* every order in which the elements of S can be listed
Perms(S) ==
    {p \in [1..Cardinality(S) -> S] : \A a, b \in DOMAIN p : p[a] = p[b] => a = b}

Thresholds == {2, 3}
BatchSizes == {1, 2}

(* ------------------------------ indexer -------------------------------- *)
\* BATCH_SIZE (1000 in the source) scaled so that a batch fills in a small corpus
BATCH_SIZE == 2

SameCoordinate(r1, r2) ==
    /\ r1.file_num = r2.file_num
    /\ r1.line_num = r2.line_num
    /\ r1.sent_num = r2.sent_num

\* a row of the batch breaks UNIQUE (file_num, line_num, sent_num)
Clash(table, rows) ==
    \/ \E a \in DOMAIN rows : \E r \in table : SameCoordinate(rows[a], r)
    \/ \E a, b \in DOMAIN rows : a # b /\ SameCoordinate(rows[a], rows[b])

\* what the database may answer to a statement: it raises while faults are left
StoreOutcomes == IF faults > 0 THEN {"ok", "error"} ELSE {"ok"}

\* the except branch is taken: the store raised, or the plain INSERT met a
\* row that breaks the UNIQUE constraint (also a DatabaseError)
Raises(table, rows, outcome) == outcome = "error" \/ Clash(table, rows)

\* InsertSentences that keeps the rows written before the statement raised
InsertSentencesPartial(table, rows, outcome) ==
    IF Raises(table, rows, outcome)
    THEN table \cup {rows[1]}
    ELSE table \cup {rows[a] : a \in DOMAIN rows}

\* cursor.executemany(insert_stmt, buffer); database_conn.commit(), and
\* database_conn.rollback() in the except branch: all rows or none
InsertSentences(table, rows, outcome) ==
    IF Raises(table, rows, outcome)
    THEN table
    ELSE table \cup {rows[a] : a \in DOMAIN rows}

\* SkipMalformed that also empties the buffer
SkipMalformedClearing ==
    /\ input_todo' = Tail(input_todo)
    /\ buffer' = << >>
    /\ UNCHANGED <<ipc, data, pos>>

\* json.load or the "list of lists" test raises: the except branch logs the
\* error and continues with the next file
SkipMalformed ==
    /\ input_todo' = Tail(input_todo)
    /\ UNCHANGED <<ipc, data, pos, buffer>>

\* for file_path in input_file_paths: extract_file_idx, json.load
IndexFile ==
    /\ ipc = "files"
    /\ input_todo # << >>
    /\ i_file_idx' = Head(input_todo)
    /\ line_idx' = 0
    /\ sent_idx' = 0
    /\ offset' = 0
    /\ IF Head(input_todo) \in malformed
       THEN SkipMalformed
       ELSE /\ data' = files[Head(input_todo)]
            /\ pos' = 0
            /\ ipc' = "walk"
            /\ UNCHANGED <<input_todo, buffer>>
    /\ UNCHANGED <<env, dbvars, generated, dropped, calls, dvars, rvars, mvars>>

\* Advance that never moves sent_idx
AdvanceStuck(s, l, si, off) ==
    IF s = STOP_SENTINEL THEN <<l + 1, 0, 0>>
    ELSE IF s = << >> THEN <<l, si, off>>
    ELSE <<l, si, off + Len(Join(s)) + 1>>

\* Advance that counts an empty token list as a sentence
AdvanceCountEmpty(s, l, si, off) ==
    IF s = STOP_SENTINEL THEN <<l + 1, 0, 0>>
    ELSE IF s = << >> THEN <<l, si + 1, off>>
    ELSE <<l, si + 1, off + Len(Join(s)) + 1>>

\* Advance that leaves offset alone at a boundary marker
AdvanceNoReset(s, l, si, off) ==
    IF s = STOP_SENTINEL THEN <<l + 1, 0, off>>
    ELSE IF s = << >> THEN <<l, si, off>>
    ELSE <<l, si + 1, off + Len(Join(s)) + 1>>

\* <<line_idx, sent_idx, offset>> after the element s of data
Advance(s, l, si, off) ==
    IF s = STOP_SENTINEL THEN <<l + 1, 0, 0>>
    ELSE IF s = << >> THEN <<l, si, off>>
    ELSE <<l, si + 1, off + Len(Join(s)) + 1>>

\* one iteration of "for sentence in data", the batch insert included
IndexElement ==
    /\ ipc = "walk"
    /\ pos < Len(data)
    /\ pos' = pos + 1
    /\ LET s == data[pos + 1]
           row == [hash |-> hash_sentence(s), file_num |-> i_file_idx,
                   line_num |-> line_idx, sent_num |-> sent_idx,
                   sent_offset |-> offset]
           filled == Append(buffer, row)
           after == Advance(s, line_idx, sent_idx, offset)
       IN  /\ line_idx' = after[1]
           /\ sent_idx' = after[2]
           /\ offset' = after[3]
           /\ IF s = STOP_SENTINEL \/ s = << >>
              THEN UNCHANGED <<buffer, sentences, generated, dropped, faults>>
              ELSE /\ generated' = Append(generated,
                                     [call |-> calls, pos |-> pos, row |-> row])
                   /\ IF Len(filled) >= BATCH_SIZE
                      THEN \E outcome \in StoreOutcomes :
                             /\ sentences' = InsertSentences(sentences, filled,
                                                             outcome)
                             /\ buffer' = << >>
                             /\ dropped' =
                                  IF Raises(sentences, filled, outcome)
                                  THEN dropped \cup
                                       {filled[a] : a \in DOMAIN filled}
                                  ELSE dropped
                             /\ faults' = IF outcome = "error"
                                          THEN faults - 1 ELSE faults
                      ELSE /\ buffer' = filled
                           /\ UNCHANGED <<sentences, dropped, faults>>
    /\ UNCHANGED <<files, malformed, repetition_runs, runs_table, ipc,
                   input_todo, i_file_idx, data, calls, dvars, rvars, mvars>>

\* the for loop over data has ended: on to the next file
IndexFileEnd ==
    /\ ipc = "walk"
    /\ pos >= Len(data)
    /\ input_todo' = Tail(input_todo)
    /\ ipc' = "files"
    /\ UNCHANGED <<env, dbvars, i_file_idx, data, pos, line_idx, sent_idx,
                   offset, buffer, generated, dropped, calls, dvars, rvars, mvars>>

\* "Insert remaining buffered data"; the except branch rolls back and leaves
\* the buffer as it is
IndexFinal ==
    /\ ipc = "files"
    /\ input_todo = << >>
    /\ IF buffer # << >>
       THEN \E outcome \in StoreOutcomes :
              /\ sentences' = InsertSentences(sentences, buffer, outcome)
              /\ IF Raises(sentences, buffer, outcome)
                 THEN /\ buffer' = buffer
                      /\ dropped' = dropped \cup
                                    {buffer[a] : a \in DOMAIN buffer}
                 ELSE /\ buffer' = << >>
                      /\ dropped' = dropped
              /\ faults' = IF outcome = "error" THEN faults - 1 ELSE faults
       ELSE UNCHANGED <<sentences, buffer, dropped, faults>>
    /\ ipc' = "done"
    /\ UNCHANGED <<files, malformed, repetition_runs, runs_table, input_todo,
                   i_file_idx, data, pos, line_idx, sent_idx, offset,
                   generated, calls, dvars, rvars, mvars>>

\* the lists of input files a call of populate_db can be given
InputLists == UNION {Perms(S) : S \in SUBSET FileNums}

\* populate_db is started once more, by a re-run or by another worker, on a
\* database that holds what the earlier call committed
IndexAgain ==
    /\ ipc = "done"
    /\ dpc = "idle"
    /\ calls < MaxPasses
    /\ calls' = calls + 1
    /\ input_todo' \in InputLists
    /\ buffer' = << >>
    /\ ipc' = "files"
    /\ UNCHANGED <<env, dbvars, i_file_idx, data, pos, line_idx, sent_idx,
                   offset, generated, dropped, dvars, rvars, mvars>>

(* ------------------------------ detector ------------------------------- *)
\* CandidateHashes that counts the occurrences of a hash file by file
CandidateHashesPerFile(t) ==
    {h \in {r.hash : r \in sentences} :
        \E f \in {r.file_num : r \in sentences} :
            Cardinality({r \in sentences : r.hash = h /\ r.file_num = f}) >= t}

\* CandidateHashes that asks for more than threshold occurrences
CandidateHashesStrict(t) ==
    {h \in {r.hash : r \in sentences} :
        Cardinality({r \in sentences : r.hash = h}) > t}

\* SELECT hash FROM sentences GROUP BY hash HAVING COUNT(*) >= %s
CandidateHashes(t) ==
    {h \in {r.hash : r \in sentences} :
        Cardinality({r \in sentences : r.hash = h}) >= t}

RowBefore(r1, r2) ==
    \/ r1.file_num < r2.file_num
    \/ r1.file_num = r2.file_num /\ r1.line_num < r2.line_num
    \/ r1.file_num = r2.file_num /\ r1.line_num = r2.line_num
       /\ r1.sent_num < r2.sent_num

\* ... ORDER BY file_num, line_num, sent_num
RECURSIVE OrderRows(_)
OrderRows(S) ==
    IF S = {} THEN << >>
    ELSE LET m == CHOOSE x \in S : \A y \in S \ {x} : RowBefore(x, y)
         IN  <<m>> \o OrderRows(S \ {m})

\* SELECT file_num, line_num, sent_num FROM sentences WHERE hash = %s ORDER BY ...
Occurrences(h) ==
    OrderRows({[file_num |-> r.file_num, line_num |-> r.line_num,
                sent_num |-> r.sent_num] : r \in {q \in sentences : q.hash = h}})

\* row[0] == prev[0] and row[1] == prev[1] and row[2] == prev[2] + 1
Contiguous(row, prev) ==
    /\ row.file_num = prev.file_num
    /\ row.line_num = prev.line_num
    /\ row.sent_num = prev.sent_num + 1

\* LongEnough with the comparison one too low
LongEnoughOffByOne(run, t) == Len(run) >= t - 1

\* LongEnough with a strict comparison
LongEnoughStrict(run, t) == Len(run) > t

\* len(run) >= threshold
LongEnough(run, t) == Len(run) >= t

\* insert_run_occurrence_batch taking the coordinate of the run's last row
insert_run_last_row(b, hash_val, run) ==
    Append(b, [hash |-> hash_val, file_num |-> run[Len(run)].file_num,
               line_num |-> run[Len(run)].line_num,
               sent_num |-> run[Len(run)].sent_num,
               run_length |-> Len(run)])

insert_run_occurrence_batch(b, hash_val, run) ==
    Append(b, [hash |-> hash_val, file_num |-> run[1].file_num,
               line_num |-> run[1].line_num, sent_num |-> run[1].sent_num,
               run_length |-> Len(run)])

\* ScanRows without the "if len(run) >= threshold" that follows the loop
RECURSIVE ScanRowsNoFinal(_, _, _, _, _, _)
ScanRowsNoFinal(rows, prev, run, b, h, t) ==
    IF rows = << >>
    THEN b
    ELSE LET row == Head(rows)
         IN  IF prev # << >> /\ Contiguous(row, prev[1])
             THEN ScanRowsNoFinal(Tail(rows), <<row>>, Append(run, row), b, h, t)
             ELSE ScanRowsNoFinal(Tail(rows), <<row>>, <<row>>,
                                  IF LongEnough(run, t)
                                  THEN insert_run_occurrence_batch(b, h, run)
                                  ELSE b,
                                  h, t)

\* ScanRows that keeps the rows of the closed run in the run it opens
RECURSIVE ScanRowsKeepRun(_, _, _, _, _, _)
ScanRowsKeepRun(rows, prev, run, b, h, t) ==
    IF rows = << >>
    THEN IF LongEnough(run, t) THEN insert_run_occurrence_batch(b, h, run) ELSE b
    ELSE LET row == Head(rows)
         IN  IF prev # << >> /\ Contiguous(row, prev[1])
             THEN ScanRowsKeepRun(Tail(rows), <<row>>, Append(run, row), b, h, t)
             ELSE ScanRowsKeepRun(Tail(rows), <<row>>, Append(run, row),
                                  IF LongEnough(run, t)
                                  THEN insert_run_occurrence_batch(b, h, run)
                                  ELSE b,
                                  h, t)

\* "for row in cur" from the rows still to come; prev = << >> stands for None.
\* Gives the batch after the loop and the final "if len(run) >= threshold"
RECURSIVE ScanRows(_, _, _, _, _, _)
ScanRows(rows, prev, run, b, h, t) ==
    IF rows = << >>
    THEN IF LongEnough(run, t) THEN insert_run_occurrence_batch(b, h, run) ELSE b
    ELSE LET row == Head(rows)
         IN  IF prev # << >> /\ Contiguous(row, prev[1])
             THEN ScanRows(Tail(rows), <<row>>, Append(run, row), b, h, t)
             ELSE ScanRows(Tail(rows), <<row>>, <<row>>,
                           IF LongEnough(run, t)
                           THEN insert_run_occurrence_batch(b, h, run) ELSE b,
                           h, t)

\* SameRunKey that compares the line only
SameRunKeyLine(r1, r2) ==
    /\ r1.file_num = r2.file_num
    /\ r1.line_num = r2.line_num

\* UNIQUE (file_num, line_num, sent_num) of table repetition_runs
SameRunKey(r1, r2) ==
    /\ r1.file_num = r2.file_num
    /\ r1.line_num = r2.line_num
    /\ r1.sent_num = r2.sent_num

\* INSERT ... ON CONFLICT DO NOTHING of one row
InsertRun(table, row) ==
    IF \E r \in table : SameRunKey(r, row) THEN table ELSE table \cup {row}

\* flush_batch: executemany of the insert over the batch, in order
RECURSIVE flush_batch(_, _)
flush_batch(table, b) ==
    IF b = << >> THEN table
    ELSE flush_batch(InsertRun(table, Head(b)), Tail(b))

\* main_loop_streamed up to the first hash: CREATE TABLE repetition_runs (which
\* raises when the table exists, and nothing catches it), the candidate query
DetectStart ==
    /\ ipc = "done"
    /\ rpc = "idle"
    /\ dpc \in {"idle", "done", "failed", "aborted"}
    /\ passes < MaxPasses
    /\ passes' = passes + 1
    /\ started_from' = dpc
    /\ IF runs_table
       THEN /\ dpc' = "failed"
            /\ UNCHANGED <<runs_table, d_threshold, batch_size, hashes, batch>>
       ELSE /\ runs_table' = TRUE
            /\ d_threshold' \in Thresholds
            /\ batch_size' \in BatchSizes
            /\ hashes' \in Perms(CandidateHashes(d_threshold'))
            /\ batch' = << >>
            /\ dpc' = "scan"
    /\ UNCHANGED <<env, sentences, repetition_runs, emitted, scans, flushed,
                   ivars, rvars, mvars>>

\* one iteration of "for h in hashes"; a store error raised by the scan is
\* caught nowhere and ends main_loop_streamed
ScanHash ==
    /\ dpc = "scan"
    /\ hashes # << >>
    /\ \E outcome \in StoreOutcomes :
         IF outcome = "error"
         THEN /\ dpc' = "aborted"
              /\ faults' = faults - 1
              /\ UNCHANGED <<hashes, batch, emitted, repetition_runs, scans,
                             flushed>>
         ELSE /\ LET h == Head(hashes)
                     scanned == ScanRows(Occurrences(h), << >>, << >>, batch, h,
                                         d_threshold)
                 IN  /\ emitted' = emitted \o
                                   SubSeq(scanned, Len(batch) + 1, Len(scanned))
                     /\ scans' = Append(scans, h)
                     /\ IF Len(scanned) >= batch_size
                        THEN /\ repetition_runs' =
                                  flush_batch(repetition_runs, scanned)
                             /\ flushed' = Append(flushed, Len(scanned))
                             /\ batch' = << >>
                        ELSE /\ batch' = scanned
                             /\ UNCHANGED <<repetition_runs, flushed>>
              /\ hashes' = Tail(hashes)
              /\ UNCHANGED <<dpc, faults>>
    /\ UNCHANGED <<files, malformed, sentences, runs_table, d_threshold,
                   batch_size, passes, started_from, ivars, rvars, mvars>>

\* after the loop: flush_batch(conn, batch)
DetectFinal ==
    /\ dpc = "scan"
    /\ hashes = << >>
    /\ repetition_runs' = flush_batch(repetition_runs, batch)
    /\ flushed' = IF batch = << >> THEN flushed
                  ELSE Append(flushed, Len(batch))
    /\ batch' = << >>
    /\ dpc' = "done"
    /\ UNCHANGED <<env, sentences, runs_table, d_threshold, batch_size,
                   hashes, emitted, passes, started_from, scans, ivars, rvars, mvars>>

(* ------------------------------ remover -------------------------------- *)
\* RunQuery without "file_num = %s"
RunQueryAnyFile(f, t) ==
    {r \in repetition_runs : r.run_length >= t}

\* SELECT hash, line_num, sent_num, run_length FROM repetition_runs
\* WHERE file_num = %s AND run_length >= %s
RunQuery(f, t) ==
    {r \in repetition_runs : r.file_num = f /\ r.run_length >= t}

\* run_map = {(line_num, sent_num): (hash_str, run_length) for ... in runs}
RunMapOf(runs) ==
    [key \in {<<r.line_num, r.sent_num>> : r \in runs} |->
        LET r == CHOOSE q \in runs : <<q.line_num, q.sent_num>> = key
        IN  [hash |-> r.hash, run_length |-> r.run_length]]

n == Len(sentence_list)
\* sentence_list[i] with Python's 0-based index
sentence == sentence_list[i + 1]
key == <<line_num, sent_num>>

\* all(hash_sentence(s) == expected_hash for s in sentence_list[i : i + run_length])
AllMatch(list, from, run_length, expected_hash) ==
    \A k \in from .. from + run_length - 1 :
        hash_sentence(list[k + 1]) = expected_hash

\* remove_seq.py starts: slc_files = FileFinder(...).find_files(), threshold
RemoverStart ==
    /\ rpc = "idle"
    /\ ipc = "done"
    /\ dpc = "done"
    /\ r_threshold' \in Thresholds
    /\ slc_todo' = Ascending(DOMAIN files)
    /\ rpc' = "load"
    /\ UNCHANGED <<env, dbvars, ivars, dvars, mvars, file_idx, sentence_list,
                   run_map, output_list, line_num, sent_num, i, w2v, kept,
                   visits>>

\* for j, slc_file in enumerate(slc_files): load the file, query its runs
LoadFile ==
    /\ rpc = "load"
    /\ slc_todo # << >>
    /\ file_idx' = Head(slc_todo)
    /\ sentence_list' = files[Head(slc_todo)]
    /\ run_map' = RunMapOf(RunQuery(Head(slc_todo), r_threshold))
    /\ output_list' = << >>
    /\ line_num' = 0
    /\ sent_num' = 0
    /\ i' = 0
    /\ kept' = << >>
    /\ visits' = {}
    /\ rpc' = "walk"
    /\ UNCHANGED <<env, dbvars, ivars, dvars, mvars, r_threshold, slc_todo, w2v>>

\* if sentence == STOP_SENTINEL: ... continue
WalkSentinel ==
    /\ rpc = "walk"
    /\ i < n
    /\ sentence = STOP_SENTINEL
    /\ line_num' = line_num + 1
    /\ sent_num' = 0
    /\ i' = i + 1
    /\ output_list' = Append(output_list, sentence)
    /\ kept' = Append(kept, i)
    /\ UNCHANGED <<env, dbvars, ivars, dvars, mvars, rpc, r_threshold, slc_todo, file_idx,
                   sentence_list, run_map, w2v, visits>>

\* RunStep with the run's first sentence appended before the skip
RunStepEmitFirst(all_match, run_length) ==
    /\ i' = i + run_length
    /\ sent_num' = sent_num + run_length
    /\ output_list' = Append(output_list, sentence)
    /\ kept' = Append(kept, i)

\* RunStep with sent_num advanced as for a single sentence
RunStepSentByOne(all_match, run_length) ==
    /\ i' = i + run_length
    /\ sent_num' = sent_num + 1
    /\ output_list' = output_list
    /\ kept' = kept

\* RunStep that leaves the cursor and sent_num where they are
RunStepStuck(all_match, run_length) ==
    /\ i' = i
    /\ sent_num' = sent_num
    /\ output_list' = output_list
    /\ kept' = kept

\* the step taken at a run start whose slice lies inside the document:
\* all_match only selects the log message, both branches fall through to
\* "i += run_length; sent_num += run_length" and append nothing
RunStep(all_match, run_length) ==
    /\ i' = i + run_length
    /\ sent_num' = sent_num + run_length
    /\ output_list' = output_list
    /\ kept' = kept

\* RunBreak that copies the sentence and goes on with the walk
RunBreakCopy ==
    /\ output_list' = Append(output_list, sentence)
    /\ kept' = Append(kept, i)
    /\ i' = i + 1
    /\ sent_num' = sent_num + 1
    /\ rpc' = rpc

\* "if i + run_length > n: ... break": the walk ends where it stands
RunBreak ==
    /\ rpc' = "save"
    /\ UNCHANGED <<i, sent_num, output_list, kept>>

\* if key in run_map: break when the slice passes the end, else verify and skip
WalkRun ==
    /\ rpc = "walk"
    /\ i < n
    /\ sentence # STOP_SENTINEL
    /\ key \in DOMAIN run_map
    /\ LET run_length == run_map[key].run_length
           in_bounds == i + run_length <= n
           all_match == in_bounds /\
                        AllMatch(sentence_list, i, run_length, run_map[key].hash)
       IN  /\ visits' = visits \cup
                 {[i |-> i, run_length |-> run_length,
                   bounds |-> in_bounds, all_match |-> all_match]}
           /\ IF in_bounds
              THEN /\ RunStep(all_match, run_length)
                   /\ rpc' = rpc
              ELSE RunBreak
    /\ UNCHANGED <<env, dbvars, ivars, dvars, mvars, r_threshold, slc_todo, file_idx,
                   sentence_list, run_map, line_num, w2v>>

\* else: output_list.append(sentence); i += 1; sent_num += 1
WalkCopy ==
    /\ rpc = "walk"
    /\ i < n
    /\ sentence # STOP_SENTINEL
    /\ key \notin DOMAIN run_map
    /\ output_list' = Append(output_list, sentence)
    /\ kept' = Append(kept, i)
    /\ i' = i + 1
    /\ sent_num' = sent_num + 1
    /\ UNCHANGED <<env, dbvars, ivars, dvars, mvars, rpc, r_threshold, slc_todo, file_idx,
                   sentence_list, run_map, line_num, w2v, visits>>

\* the while loop has ended (i >= n, or by break): json.dump(output_list)
SaveFile ==
    /\ \/ rpc = "walk" /\ i >= n
       \/ rpc = "save"
    /\ w2v' = (file_idx :> output_list) @@ w2v
    /\ slc_todo' = Tail(slc_todo)
    /\ rpc' = "load"
    /\ UNCHANGED <<env, dbvars, ivars, dvars, mvars, r_threshold, file_idx, sentence_list,
                   run_map, output_list, line_num, sent_num, i, kept, visits>>

\* the for loop over slc_files has ended
RemoverDone ==
    /\ rpc = "load"
    /\ slc_todo = << >>
    /\ rpc' = "done"
    /\ UNCHANGED <<env, dbvars, ivars, dvars, mvars, r_threshold, slc_todo, file_idx,
                   sentence_list, run_map, output_list, line_num, sent_num,
                   i, w2v, kept, visits>>

NextRemove ==
    \/ RemoverStart
    \/ LoadFile
    \/ WalkSentinel
    \/ WalkRun
    \/ WalkCopy
    \/ SaveFile
    \/ RemoverDone

(* ------------------------------ materializer --------------------------- *)
\* SELECT DISTINCT hash, file_num, line_num, sent_num FROM repetition_runs
TextRows ==
    {[hash |-> r.hash, file_num |-> r.file_num, line_num |-> r.line_num,
      sent_num |-> r.sent_num] : r \in repetition_runs}

\* hash_locations = {row[0]: (row[1], row[2], row[3]) for row in rows}: one
\* location for each hash, the one of the row that fetchall() lists last
HashLocations ==
    {loc \in [{r.hash : r \in TextRows} -> TextRows] :
        \A h \in DOMAIN loc : loc[h].hash = h}

\* an order in which the entries of the set S can stand in a group
EntryOrders(S) ==
    {p \in [1..Cardinality(S) -> S] : \A a, b \in DOMAIN p : p[a] = p[b] => a = b}

\* file_groups: the locations grouped by file_num, the groups and the entries
\* of a group in the order in which the dict hash_locations lists them
FileGroups(loc) ==
    LET located == {loc[h] : h \in DOMAIN loc}
        nums == {r.file_num : r \in located}
    IN  {g \in [1..Cardinality(nums) ->
                  UNION {{[file_num |-> f, entries |-> e] :
                            e \in EntryOrders({r \in located : r.file_num = f})} :
                         f \in nums}] :
            \A a, b \in DOMAIN g : g[a].file_num = g[b].file_num => a = b}

\* "compute line positions": line_start_map after the first idx elements
RECURSIVE LineStarts(_, _, _, _)
LineStarts(doc, idx, current_line_num, map) ==
    IF idx >= Len(doc) THEN map
    ELSE IF doc[idx + 1] = STOP_SENTINEL
    THEN LineStarts(doc, idx + 1, current_line_num + 1,
                    (current_line_num + 1 :> idx + 1) @@ map)
    ELSE LineStarts(doc, idx + 1, current_line_num, map)

\* Resolve without the comparison of the computed hash
ResolveNoHashCheck(doc, map, e) ==
    IF e.line_num \notin DOMAIN map THEN "no_line"
    ELSE LET actual_index == map[e.line_num] + e.sent_num
         IN  IF actual_index >= Len(doc) \/ actual_index < 0
             THEN "out_of_range"
             ELSE IF doc[actual_index + 1] = STOP_SENTINEL
             THEN "not_sentence"
             ELSE "ok"

\* the body of the try for one entry: which "continue" is taken, or "ok" when
\* the entry reaches buffer.append
Resolve(doc, map, e) ==
    IF e.line_num \notin DOMAIN map THEN "no_line"
    ELSE LET actual_index == map[e.line_num] + e.sent_num
         IN  IF actual_index >= Len(doc) \/ actual_index < 0
             THEN "out_of_range"
             ELSE IF doc[actual_index + 1] = STOP_SENTINEL
             THEN "not_sentence"
             ELSE IF xxh64(Join(doc[actual_index + 1])) # e.hash
             THEN "mismatch"
             ELSE "ok"

\* " ".join(sentence_tokens) of the sentence the entry points at
SentenceStr(doc, map, e) == Join(doc[map[e.line_num] + e.sent_num + 1])

\* INSERT INTO sentence_texts ... ON CONFLICT (hash) DO NOTHING of one row
InsertText(table, row) ==
    IF \E r \in table : r.hash = row.hash THEN table ELSE table \cup {row}

\* insert_sentences: executemany of the insert over rows, in order
RECURSIVE insert_sentences(_, _)
insert_sentences(table, rows) ==
    IF rows = << >> THEN table
    ELSE insert_sentences(InsertText(table, Head(rows)), Tail(rows))

\* populate_sentence_texts up to the loop over file_groups
MaterializeStart ==
    /\ mpc = "idle"
    /\ dpc = "done"
    /\ rpc = "idle"
    /\ m_batch_size' \in BatchSizes
    /\ \E loc \in HashLocations : file_groups' \in FileGroups(loc)
    /\ m_buffer' = << >>
    /\ mpc' = "files"
    /\ UNCHANGED <<env, dbvars, ivars, dvars, rvars, sentence_texts, m_file_num,
                   m_data, line_start_map, entries, resolved>>

\* for file_num, entries in file_groups.items(): load the file (a missing
\* file is skipped), compute line_start_map
MaterializeFile ==
    /\ mpc = "files"
    /\ file_groups # << >>
    /\ m_file_num' = Head(file_groups).file_num
    /\ IF Head(file_groups).file_num \notin DOMAIN files
       THEN /\ file_groups' = Tail(file_groups)
            /\ UNCHANGED <<mpc, m_data, line_start_map, entries>>
       ELSE /\ m_data' = files[Head(file_groups).file_num]
            /\ line_start_map' = LineStarts(m_data', 0, 0, (0 :> 0))
            /\ entries' = Head(file_groups).entries
            /\ mpc' = "entries"
            /\ UNCHANGED file_groups
    /\ UNCHANGED <<env, dbvars, ivars, dvars, rvars, sentence_texts,
                   m_batch_size, m_buffer, resolved>>

\* one iteration of "for h, line_num, sent_num in entries", the batch insert
\* included
MaterializeEntry ==
    /\ mpc = "entries"
    /\ entries # << >>
    /\ entries' = Tail(entries)
    /\ LET e == Head(entries)
           outcome == Resolve(m_data, line_start_map, e)
           filled == Append(m_buffer,
                            [hash |-> e.hash,
                             sent_text |-> SentenceStr(m_data, line_start_map, e)])
       IN  /\ resolved' = resolved \cup {[hash |-> e.hash, outcome |-> outcome]}
           /\ IF outcome # "ok"
              THEN UNCHANGED <<m_buffer, sentence_texts>>
              ELSE IF Len(filled) >= m_batch_size
              THEN /\ sentence_texts' = insert_sentences(sentence_texts, filled)
                   /\ m_buffer' = << >>
              ELSE /\ m_buffer' = filled
                   /\ sentence_texts' = sentence_texts
    /\ UNCHANGED <<env, dbvars, ivars, dvars, rvars, mpc, m_batch_size,
                   file_groups, m_file_num, m_data, line_start_map>>

\* the loop over entries has ended: on to the next group
MaterializeFileEnd ==
    /\ mpc = "entries"
    /\ entries = << >>
    /\ file_groups' = Tail(file_groups)
    /\ mpc' = "files"
    /\ UNCHANGED <<env, dbvars, ivars, dvars, rvars, sentence_texts,
                   m_batch_size, m_file_num, m_data, line_start_map, entries,
                   m_buffer, resolved>>

\* after the loop: "if buffer: insert_sentences(conn, buffer)"
MaterializeFinal ==
    /\ mpc = "files"
    /\ file_groups = << >>
    /\ sentence_texts' = insert_sentences(sentence_texts, m_buffer)
    /\ mpc' = "done"
    /\ UNCHANGED <<env, dbvars, ivars, dvars, rvars, m_batch_size, file_groups,
                   m_file_num, m_data, line_start_map, entries, m_buffer,
                   resolved>>

NextTexts ==
    \/ MaterializeStart
    \/ MaterializeFile
    \/ MaterializeEntry
    \/ MaterializeFileEnd
    \/ MaterializeFinal

\* populate_sentence_texts has not been called
MaterializerIdle ==
    /\ sentence_texts = {}
    /\ mpc = "idle"
    /\ m_batch_size = 0
    /\ file_groups = << >>
    /\ m_file_num = 0
    /\ m_data = << >>
    /\ line_start_map = (0 :> 0)
    /\ entries = << >>
    /\ m_buffer = << >>
    /\ resolved = {}

(* ---- the remover started on any document against any stored runs ------ *)
RunHashes == {hash_sentence(SentA), hash_sentence(SentB)}
StoreLines == 0..1
StoreSents == 0..2
RunRows ==
    [hash : RunHashes, file_num : {1}, line_num : StoreLines,
     sent_num : StoreSents, run_length : Thresholds]

\* UNIQUE (file_num, line_num, sent_num)
UniqueRuns(S) ==
    \A r1, r2 \in S :
        (r1.file_num = r2.file_num /\ r1.line_num = r2.line_num
         /\ r1.sent_num = r2.sent_num) => r1 = r2

\* what one detector pass over an index with unique coordinates can leave:
\* runs of one line are disjoint, and two runs of one hash do not touch
Producible(S) ==
    /\ UniqueRuns(S)
    /\ \A r1, r2 \in S :
        (r1 # r2 /\ r1.file_num = r2.file_num /\ r1.line_num = r2.line_num
         /\ r1.sent_num <= r2.sent_num) =>
            /\ r1.sent_num + r1.run_length <= r2.sent_num
            /\ r1.hash = r2.hash => r1.sent_num + r1.run_length < r2.sent_num

RECURSIVE SubsetsUpTo(_, _)
SubsetsUpTo(S, k) ==
    IF k = 0 THEN {{}}
    ELSE LET smaller == SubsetsUpTo(S, k - 1)
         IN  smaller \cup {T \cup {x} : T \in smaller, x \in S}

Stores == {S \in SubsetsUpTo(RunRows, MaxRuns) : Producible(S)}

RemoveSymbols == {SentA, SentB, STOP_SENTINEL}

RemoverIdle ==
    /\ rpc = "idle"
    /\ r_threshold = 0
    /\ slc_todo = << >>
    /\ file_idx = 0
    /\ sentence_list = << >>
    /\ run_map = << >>
    /\ output_list = << >>
    /\ line_num = 0
    /\ sent_num = 0
    /\ i = 0
    /\ w2v = << >>
    /\ kept = << >>
    /\ visits = {}

\* the indexer and the detector have run, on an earlier version of the corpus
InitRemove ==
    /\ files \in {(1 :> d) : d \in DocsOver(RemoveSymbols, MaxDocLen)}
    /\ malformed = {}
    /\ faults = 0
    /\ sentences = {}
    /\ repetition_runs \in Stores
    /\ runs_table = TRUE
    /\ ipc = "done" /\ input_todo = << >> /\ i_file_idx = 0 /\ data = << >>
    /\ pos = 0 /\ line_idx = 0 /\ sent_idx = 0 /\ offset = 0 /\ buffer = << >>
    /\ generated = << >> /\ dropped = {} /\ calls = 1
    /\ dpc = "done" /\ d_threshold = 2 /\ batch_size = 1 /\ hashes = << >>
    /\ batch = << >> /\ emitted = << >> /\ passes = 1 /\ started_from = "idle"
    /\ scans = << >> /\ flushed = << >>
    /\ RemoverIdle
    /\ MaterializerIdle

SpecRemove == InitRemove /\ [][NextRemove]_vars

(* ---- the remover on two documents, the stored runs spread over both ---- *)
ScopeSymbols == {SentA, STOP_SENTINEL}

\* the corpora of two files over ScopeSymbols
ScopeCorpora ==
    UNION {{(1 :> [j \in 1..k |-> d[j]]) @@
            (2 :> [j \in 1..(Len(d) - k) |-> d[k + j]]) : k \in 0..Len(d)} :
              d \in DocsOver(ScopeSymbols, MaxDocLen)}

\* rows of either file, on the first line, of either run length
ScopeRows ==
    [hash : {hash_sentence(SentA)}, file_num : FileNums, line_num : {0},
     sent_num : StoreSents, run_length : Thresholds]

ScopeStores == {S \in SubsetsUpTo(ScopeRows, MaxRuns) : Producible(S)}

InitScope ==
    /\ files \in ScopeCorpora
    /\ malformed = {}
    /\ faults = 0
    /\ sentences = {}
    /\ repetition_runs \in ScopeStores
    /\ runs_table = TRUE
    /\ ipc = "done" /\ input_todo = << >> /\ i_file_idx = 0 /\ data = << >>
    /\ pos = 0 /\ line_idx = 0 /\ sent_idx = 0 /\ offset = 0 /\ buffer = << >>
    /\ generated = << >> /\ dropped = {} /\ calls = 1
    /\ dpc = "done" /\ d_threshold = 2 /\ batch_size = 1 /\ hashes = << >>
    /\ batch = << >> /\ emitted = << >> /\ passes = 1 /\ started_from = "idle"
    /\ scans = << >> /\ flushed = << >>
    /\ RemoverIdle
    /\ MaterializerIdle

SpecScope == InitScope /\ [][NextRemove]_vars

\* the remover as a running script: the interpreter takes the next step of
\* the loops whenever there is one
SpecScopeFair == SpecScope /\ WF_vars(NextRemove)

(* ---- the materializer on one document against any stored runs ---------- *)
\* the hashes of the stored rows: of a sentence and of the marker's text
TextHashes == {hash_sentence(SentA), hash_sentence(STOP_SENTINEL)}

\* rows that point into the first two lines of file 1, and a row of a file
\* that is not on disk
TextRunRows ==
    [hash : TextHashes, file_num : {1}, line_num : StoreLines,
     sent_num : 0..1, run_length : {2}]
    \cup [hash : {hash_sentence(SentA)}, file_num : {2}, line_num : {0},
          sent_num : {0}, run_length : {2}]

TextStores == {S \in SubsetsUpTo(TextRunRows, MaxRuns) : UniqueRuns(S)}

InitTexts ==
    /\ files \in {(1 :> d) : d \in DocsOver(RemoveSymbols, MaxDocLen - 1)}
    /\ malformed = {}
    /\ faults = 0
    /\ sentences = {}
    /\ repetition_runs \in TextStores
    /\ runs_table = TRUE
    /\ ipc = "done" /\ input_todo = << >> /\ i_file_idx = 0 /\ data = << >>
    /\ pos = 0 /\ line_idx = 0 /\ sent_idx = 0 /\ offset = 0 /\ buffer = << >>
    /\ generated = << >> /\ dropped = {} /\ calls = 1
    /\ dpc = "done" /\ d_threshold = 2 /\ batch_size = 1 /\ hashes = << >>
    /\ batch = << >> /\ emitted = << >> /\ passes = 1 /\ started_from = "idle"
    /\ scans = << >> /\ flushed = << >>
    /\ RemoverIdle
    /\ MaterializerIdle

SpecTexts == InitTexts /\ [][NextTexts]_vars

(* ---- the whole pipeline on a fresh database --------------------------- *)
PipelineSymbols == {SentA, SentB, SentEmpty, STOP_SENTINEL}

\* the document d cut after its first k elements into slc1.json and slc2.json
Split(d, k) ==
    (1 :> [j \in 1..k |-> d[j]]) @@ (2 :> [j \in 1..(Len(d) - k) |-> d[k + j]])

\* the corpora of two files with at most MaxDocLen elements in all
Corpora ==
    UNION {{Split(d, k) : k \in 0..Len(d)} :
              d \in DocsOver(PipelineSymbols, MaxDocLen)}

\* populate_db has just been called on an empty table sentences, and the
\* other two stages have not run
Fresh ==
    /\ sentences = {}
    /\ repetition_runs = {}
    /\ runs_table = FALSE
    /\ ipc = "files"
    /\ i_file_idx = 0 /\ data = << >>
    /\ pos = 0 /\ line_idx = 0 /\ sent_idx = 0 /\ offset = 0 /\ buffer = << >>
    /\ generated = << >> /\ dropped = {} /\ calls = 1
    /\ dpc = "idle" /\ d_threshold = 0 /\ batch_size = 0 /\ hashes = << >>
    /\ batch = << >> /\ emitted = << >> /\ passes = 0 /\ started_from = "idle"
    /\ scans = << >> /\ flushed = << >>
    /\ RemoverIdle
    /\ MaterializerIdle

Init ==
    /\ files \in Corpora
    /\ malformed = {}
    /\ faults = 0
    /\ input_todo = Ascending(DOMAIN files)
    /\ Fresh

Next ==
    \/ IndexFile
    \/ IndexElement
    \/ IndexFileEnd
    \/ IndexFinal
    \/ DetectStart
    \/ ScanHash
    \/ DetectFinal
    \/ NextRemove

Spec == Init /\ [][Next]_vars

(* ---- the indexer called again: a re-run, or a second worker ------------ *)
IndexSymbols == {SentA, SentB, STOP_SENTINEL}

\* the corpora of two files of sentences and markers
IndexCorpora ==
    UNION {{Split(d, k) : k \in 0..Len(d)} :
              d \in DocsOver(IndexSymbols, MaxDocLen)}

InitReindex ==
    /\ files \in IndexCorpora
    /\ malformed = {}
    /\ faults = 0
    /\ input_todo \in InputLists
    /\ Fresh

NextReindex ==
    \/ IndexFile
    \/ IndexElement
    \/ IndexFileEnd
    \/ IndexFinal
    \/ IndexAgain

SpecReindex == InitReindex /\ [][NextReindex]_vars

(* ---- indexer and detector with malformed files and store errors -------- *)
\* a malformed file holds, besides the token lists files gives for it, an
\* element that is not a list
InitFaulty ==
    /\ malformed \in SUBSET FileNums
    /\ files \in IndexCorpora
    /\ faults = MaxFaults
    /\ input_todo = Ascending(DOMAIN files)
    /\ Fresh

NextFaulty ==
    \/ IndexFile
    \/ IndexElement
    \/ IndexFileEnd
    \/ IndexFinal
    \/ DetectStart
    \/ ScanHash
    \/ DetectFinal

SpecFaulty == InitFaulty /\ [][NextFaulty]_vars

(* ======================= properties of the remover ===================== *)
\* the cleaned document of the file at hand has been written
Saved == file_idx \in DOMAIN w2v

KeptSet == {kept[j] : j \in DOMAIN kept}

\* the input indices (0-based) of the slice [i, i + run_length) of a visit
Slice(v) == {k \in v.i .. (v.i + v.run_length - 1) : k < n}

Markers(doc) == Cardinality({k \in DOMAIN doc : doc[k] = STOP_SENTINEL})

\* output_list is the input restricted to the kept indices, in input order
OrderPreserved ==
    /\ Len(output_list) = Len(kept)
    /\ \A a, b \in DOMAIN kept : a < b => kept[a] < kept[b]
    /\ \A a \in DOMAIN kept : output_list[a] = sentence_list[kept[a] + 1]

\* (line_num, sent_num) of input index k: markers before it, elements since
\* the last marker
CoordOf(list, k) ==
    LET before == {j \in 1..k : list[j] = STOP_SENTINEL}
        last == IF before = {} THEN 0
                ELSE CHOOSE j \in before : \A x \in before : x <= j
    IN  <<Cardinality(before), k - last>>

\* C1: a run start whose slice holds a sentence with a hash other than the
\* expected one leaves every sentence of the slice in the output, in order
C1_FailSafe ==
    Saved =>
        \A v \in visits :
            (v.bounds /\ ~v.all_match) =>
                (Slice(v) \subseteq KeptSet /\ OrderPreserved)

\* C2: the cleaned document has as many boundary markers as the input
C2_MarkersPreserved ==
    Saved => Markers(w2v[file_idx]) = Markers(sentence_list)

\* C3: of the slice of a run start the walk reached, the output holds either
\* every element or none
C3_NoPartialDeletion ==
    Saved =>
        \A v \in visits :
            \/ Slice(v) \cap KeptSet = {}
            \/ Slice(v) \subseteq KeptSet

C3_Witness ==
    /\ Saved
    /\ kept # << >>
    /\ \E v \in visits : v.bounds /\ ~v.all_match /\ v.run_length >= 2

\* C4: at a run start whose whole slice hashes to the expected hash the step
\* appends nothing, moves the cursor and sent_num by run_length and leaves
\* line_num alone; none of the slice is in the written output
C4_VerifiedRunElided ==
    /\ [][(/\ rpc = "walk"
           /\ i < n
           /\ sentence # STOP_SENTINEL
           /\ key \in DOMAIN run_map
           /\ i + run_map[key].run_length <= n
           /\ AllMatch(sentence_list, i, run_map[key].run_length,
                       run_map[key].hash))
          => (/\ i' = i + run_map[key].run_length
              /\ sent_num' = sent_num + run_map[key].run_length
              /\ line_num' = line_num
              /\ output_list' = output_list)]_vars
    /\ [](Saved => \A v \in visits :
                      v.all_match => Slice(v) \cap KeptSet = {})

C4_Witness ==
    /\ Saved
    /\ \E v \in visits : v.all_match /\ v.i + v.run_length < n

\* C5: a sentence that is neither at a run start nor inside a slice elided as
\* a verified run is in the output exactly once, and the output keeps the
\* input order
C5_OthersCopied ==
    Saved =>
        /\ OrderPreserved
        /\ \A k \in 0..(n - 1) :
              (/\ sentence_list[k + 1] # STOP_SENTINEL
               /\ CoordOf(sentence_list, k) \notin DOMAIN run_map
               /\ ~\E v \in visits : v.all_match /\ k \in Slice(v))
              => Cardinality({a \in DOMAIN kept : kept[a] = k}) = 1

(* ======================= properties of the pipeline ==================== *)
\* a document of the interchange format: no empty token list
WellFormed(doc) == \A k \in DOMAIN doc : doc[k] # << >>

\* the length of the longest stretch of elements equal to doc[k] around k
BlockLen(doc, k) ==
    LET same(a, b) == \A m \in a..b : doc[m] = doc[k]
        lo == CHOOSE a \in 1..k : same(a, k) /\ \A x \in 1..k : same(x, k) => a <= x
        hi == CHOOSE b \in k..Len(doc) :
                  same(k, b) /\ \A x \in k..Len(doc) : same(k, x) => x <= b
    IN  hi - lo + 1

\* doc from element k on, without the sentences that stand in a stretch of at
\* least t equal sentences
RECURSIVE CleanedFrom(_, _, _)
CleanedFrom(doc, k, t) ==
    IF k > Len(doc) THEN << >>
    ELSE IF doc[k] = STOP_SENTINEL \/ BlockLen(doc, k) < t
         THEN <<doc[k]>> \o CleanedFrom(doc, k + 1, t)
         ELSE CleanedFrom(doc, k + 1, t)

Occurs(h, f, l, s) ==
    \E q \in sentences :
        q.hash = h /\ q.file_num = f /\ q.line_num = l /\ q.sent_num = s

EmittedSet == {emitted[a] : a \in DOMAIN emitted}

\* C7: no occurrence of an emitted run's hash stands right before the run or
\* right after it in the same line of the same file
C7_Maximal ==
    \A r \in EmittedSet \cup repetition_runs :
        /\ ~Occurs(r.hash, r.file_num, r.line_num, r.sent_num - 1)
        /\ ~Occurs(r.hash, r.file_num, r.line_num, r.sent_num + r.run_length)

C7_Witness ==
    \E r \in EmittedSet :
        \E q \in sentences :
            /\ q.hash = r.hash /\ q.file_num = r.file_num
            /\ q.line_num = r.line_num
            /\ q.sent_num > r.sent_num + r.run_length

\* the maximal stretches of at least t consecutive occurrences of one hash in
\* one line, read off the sentences table
MaximalBlocks(t) ==
    {r \in [hash : {q.hash : q \in sentences},
            file_num : {q.file_num : q \in sentences},
            line_num : {q.line_num : q \in sentences},
            sent_num : {q.sent_num : q \in sentences},
            run_length : t..Cardinality(sentences)] :
        /\ \A s \in r.sent_num .. (r.sent_num + r.run_length - 1) :
              Occurs(r.hash, r.file_num, r.line_num, s)
        /\ ~Occurs(r.hash, r.file_num, r.line_num, r.sent_num - 1)
        /\ ~Occurs(r.hash, r.file_num, r.line_num, r.sent_num + r.run_length)}

\* C8: when the pass is over, the rows emitted are the maximal stretches of at
\* least threshold occurrences, each emitted once
C8_Complete ==
    dpc = "done" =>
        /\ EmittedSet = MaximalBlocks(d_threshold)
        /\ Len(emitted) = Cardinality(EmittedSet)

\* an emitted run that was still open when its hash's rows ended
C8_Witness ==
    /\ dpc = "done"
    /\ Len(emitted) >= 2
    /\ \E r \in EmittedSet :
          ~\E q \in sentences :
              /\ q.hash = r.hash
              /\ RowBefore(r, q)
              /\ ~(q.file_num = r.file_num /\ q.line_num = r.line_num
                   /\ q.sent_num < r.sent_num + r.run_length)

\* C9: the rows of repetition_runs have distinct (file_num, line_num,
\* sent_num) and a run_length of at least the detector's threshold
C9_StoreInvariant ==
    /\ UniqueRuns(repetition_runs)
    /\ \A r \in repetition_runs : r.run_length >= d_threshold

C9_Witness == Cardinality(repetition_runs) >= 2

\* C10: a second start of main_loop_streamed over the unchanged index
\* completes and leaves the same rows
C10_RerunCompletes ==
    passes >= 2 => dpc # "failed"

(* ======================= properties of the indexer ===================== *)
\* the rows the running call of populate_db holds in its buffer
Buffered == IF ipc = "done" THEN {} ELSE {buffer[a] : a \in DOMAIN buffer}

\* the row's coordinate is in table sentences
Indexed(row) == \E r \in sentences : SameCoordinate(r, row)

\* C11: indexer writes are insert-or-ignore: a row of a flushed batch whose
\* coordinate is in the index already is skipped and every other row of the
\* batch is written, so every row the indexer has generated is still buffered
\* or has its coordinate in the index, also when a document is indexed again
C11_InsertOrIgnore ==
    \A k \in DOMAIN generated :
        generated[k].row \in Buffered \/ Indexed(generated[k].row)

\* rows a and b of generated come from one pass over one document
SamePass(a, b) ==
    /\ generated[a].call = generated[b].call
    /\ generated[a].row.file_num = generated[b].row.file_num

\* C12: no two rows of table sentences share a coordinate, and within one
\* pass over one document the indexer never generates a coordinate twice
C12_UniqueCoordinates ==
    /\ \A r1, r2 \in sentences : SameCoordinate(r1, r2) => r1 = r2
    /\ \A a, b \in DOMAIN generated :
         a # b /\ SamePass(a, b)
             => ~SameCoordinate(generated[a].row, generated[b].row)

\* a document with two sentences on one line and a sentence on the next was
\* indexed, and a later call met the coordinates of an earlier one
C12_Witness ==
    /\ ipc = "done"
    /\ dropped # {}
    /\ \E a, b, c \in DOMAIN generated :
         /\ SamePass(a, b) /\ SamePass(b, c)
         /\ generated[a].row.line_num = generated[b].row.line_num
         /\ generated[a].row.sent_num # generated[b].row.sent_num
         /\ generated[c].row.line_num # generated[a].row.line_num

\* the boundary markers among the first k elements of doc
MarkersBefore(doc, k) == {j \in 1..k : doc[j] = STOP_SENTINEL}

\* the index of the last marker among the first k elements of doc, 0 if none
LastMarker(doc, k) ==
    IF MarkersBefore(doc, k) = {} THEN 0
    ELSE CHOOSE j \in MarkersBefore(doc, k) :
             \A x \in MarkersBefore(doc, k) : x <= j

\* the non-empty sentences among the first k elements of doc that follow the
\* last marker among them
SentencesSince(doc, k) ==
    {j \in (LastMarker(doc, k) + 1)..k : doc[j] # << >>}

IsSentence(s) == s # STOP_SENTINEL /\ s # << >>

\* the indices in data (0-based) of the rows generated for file f
GeneratedAt(f) ==
    {generated[a].pos : a \in {b \in DOMAIN generated :
                                  generated[b].row.file_num = f}}

\* C13: a row's line_num is the number of boundary markers before its
\* sentence in the document and its sent_num the number of non-empty
\* sentences between the last such marker and it; a marker or an empty token
\* list emits no row, and every other element of an indexed document has one
C13_CoordinateAssignment ==
    /\ \A a \in DOMAIN generated :
         LET g == generated[a]
             doc == files[g.row.file_num]
         IN  /\ IsSentence(doc[g.pos + 1])
             /\ g.row.hash = hash_sentence(doc[g.pos + 1])
             /\ g.row.line_num = Cardinality(MarkersBefore(doc, g.pos))
             /\ g.row.sent_num = Cardinality(SentencesSince(doc, g.pos))
    /\ ipc = "done" =>
         \A f \in DOMAIN files :
             GeneratedAt(f) = {k \in 0..(Len(files[f]) - 1) :
                                  IsSentence(files[f][k + 1])}

\* a row was generated on the second line, after a sentence and an empty
\* token list of that line
C13_Witness ==
    /\ ipc = "done"
    /\ \E a \in DOMAIN generated :
         LET g == generated[a]
             doc == files[g.row.file_num]
         IN  /\ g.row.line_num = 1
             /\ g.row.sent_num = 1
             /\ \E j \in (LastMarker(doc, g.pos) + 1)..g.pos : doc[j] = << >>

(* ============ properties of the coordinates across the stages ========== *)
\* the walk of the remover stands at a non-empty sentence of a document for
\* which the run lookup is empty
AtSentenceNoRuns ==
    /\ rpc = "walk"
    /\ i < n
    /\ DOMAIN run_map = {}
    /\ IsSentence(sentence)

\* C14: with an empty run lookup the (line_num, sent_num) the remover holds
\* at a non-empty sentence is the coordinate the indexer gave that sentence,
\* also in a document with empty token lists
C14_CoordinatesAgree ==
    AtSentenceNoRuns =>
        \A a \in DOMAIN generated :
            generated[a].row.file_num = file_idx /\ generated[a].pos = i
                => key = <<generated[a].row.line_num, generated[a].row.sent_num>>

(* ============== properties under malformed files and store errors ====== *)
GeneratedRows == {generated[a].row : a \in DOMAIN generated}

\* the indexer is about to open a file that is not a list of lists
AtMalformed ==
    /\ ipc = "files"
    /\ input_todo # << >>
    /\ Head(input_todo) \in malformed

\* C15: a document that is not a list of lists has no row buffered or
\* written; the step that meets it leaves the buffer and the index as they
\* are and goes on to the next document, and the rows buffered before it are
\* written by a later flush
C15_MalformedIsolated ==
    /\ [](/\ \A r \in GeneratedRows \cup sentences : r.file_num \notin malformed
          /\ ipc = "done" /\ dropped = {} => GeneratedRows \subseteq sentences)
    /\ [][AtMalformed => /\ buffer' = buffer
                         /\ sentences' = sentences
                         /\ ipc' = "files"
                         /\ input_todo' = Tail(input_todo)]_vars

\* the second file was malformed and held a token list, a row of the first
\* was in the buffer meanwhile, and the final flush has written that row
C15_Witness ==
    /\ ipc = "done"
    /\ malformed = {2}
    /\ \E k \in DOMAIN files[2] : IsSentence(files[2][k])
    /\ Cardinality(sentences) = 1
    /\ GeneratedRows = sentences

\* C16: when a flush raises a store error none of the rows of that batch is
\* in the index afterwards and none is written later (the batch is not
\* retried), the rows committed before stay, a flush that fails inside the
\* walk leaves the indexer walking with an empty buffer, and every row
\* outside the failed batches is written by the end
C16_FlushFailureIsolated ==
    /\ [](/\ \A r \in dropped : r \notin sentences
          /\ Cardinality(dropped) <= BATCH_SIZE * (MaxFaults - faults)
          /\ ipc = "done" => GeneratedRows \subseteq sentences \cup dropped)
    /\ [][/\ sentences \subseteq sentences'
          /\ ipc = "walk" /\ dropped' # dropped
                => ipc' = "walk" /\ buffer' = << >> /\ sentences' = sentences]_vars

\* a batch was rolled back on a store error and rows generated after it have
\* been written
C16_Witness ==
    /\ ipc = "done"
    /\ faults < MaxFaults
    /\ \E d \in dropped : \E r \in sentences : RowBefore(d, r)

\* C17: a store error in the scan of one candidate hash does not end the
\* pass (the detector goes on with the next hash), and at the end of the
\* pass the runs emitted for the hashes scanned are in repetition_runs
C17_ScanFailureIsolated ==
    /\ dpc # "aborted"
    /\ dpc = "done" => EmittedSet \subseteq repetition_runs

(* ============== properties of populate_db called more than once ======== *)
\* two calls of populate_db have generated rows for one and the same file
SharedDocument ==
    \E a, b \in DOMAIN generated :
        /\ generated[a].call # generated[b].call
        /\ generated[a].row.file_num = generated[b].row.file_num

\* C18: when two indexer workers whose input lists share a document have
\* both finished, the index holds one row per coordinate and exactly the rows
\* one worker would write for the union of the inputs: no row is lost
C18_RacingIndexers ==
    calls >= 2 /\ ipc = "done" /\ SharedDocument =>
        /\ \A r1, r2 \in sentences : SameCoordinate(r1, r2) => r1 = r2
        /\ sentences = GeneratedRows

(* ============== properties of restarts and of the scan order =========== *)
\* C19: a stage that was aborted and is started again from the beginning on
\* the same input completes, and leaves the rows of one uninterrupted run
C19_RestartCompletes ==
    started_from = "aborted" =>
        /\ dpc # "failed"
        /\ dpc = "done" => repetition_runs = MaximalBlocks(d_threshold)

\* the rows of the sequence occ stand in strictly ascending order of
\* (file_num, line_num, sent_num)
StrictlyAscending(occ) ==
    \A a, b \in DOMAIN occ : a < b => RowBefore(occ[a], occ[b])

\* C20: the rows of repetition_runs after a pass are the same for every order
\* in which the candidate hashes are scanned (they are the maximal stretches
\* the index holds, which no order enters into), and the occurrences of one
\* hash are read in strictly ascending order of (file_num, line_num, sent_num)
C20_ScanOrderIndependent ==
    /\ dpc = "done" => repetition_runs = MaximalBlocks(d_threshold)
    /\ dpc = "scan" =>
         \A k \in DOMAIN hashes : StrictlyAscending(Occurrences(hashes[k]))

\* a pass has ended that scanned two candidate hashes, each with a run on one
\* and the same line
C20_Witness ==
    /\ dpc = "done"
    /\ \E r1, r2 \in repetition_runs :
         /\ r1.hash # r2.hash
         /\ r1.file_num = r2.file_num
         /\ r1.line_num = r2.line_num

(* ============== properties of the candidate filter ===================== *)
\* the places <<file, index>> of the corpus whose sentence has the hash h
PlacesOf(h) ==
    {p \in UNION {{<<f, k>> : k \in DOMAIN files[f]} : f \in DOMAIN files} :
        /\ IsSentence(files[p[1]][p[2]])
        /\ hash_sentence(files[p[1]][p[2]]) = h}

\* the hashes of all sentences of the corpus
CorpusHashes ==
    UNION {{hash_sentence(files[f][k]) :
              k \in {j \in DOMAIN files[f] : IsSentence(files[f][j])}} :
           f \in DOMAIN files}

ScanSet == {scans[k] : k \in DOMAIN scans}

\* C21: every hash the detector scans occurs at least threshold times in the
\* corpus as a whole, a hash with a row in repetition_runs does too, and when
\* the pass has ended every such hash has been scanned, once
C21_CandidateFilter ==
    /\ \A h \in ScanSet : Cardinality(PlacesOf(h)) >= d_threshold
    /\ \A r \in repetition_runs \cup EmittedSet :
         Cardinality(PlacesOf(r.hash)) >= d_threshold
    /\ dpc = "done" =>
         /\ ScanSet = {h \in CorpusHashes :
                          Cardinality(PlacesOf(h)) >= d_threshold}
         /\ Len(scans) = Cardinality(ScanSet)

\* a pass has ended that scanned a hash found in either file less than
\* threshold times, and left out a hash of the corpus
C21_Witness ==
    /\ dpc = "done"
    /\ \E h \in ScanSet :
         \A f \in DOMAIN files :
             Cardinality({p \in PlacesOf(h) : p[1] = f}) < d_threshold
    /\ CorpusHashes \ ScanSet # {}

(* ============== properties of the remover's run lookup ================= *)
\* the stored runs of the file at hand that are long enough to be removed
InScope ==
    {r \in repetition_runs : r.file_num = file_idx /\ r.run_length >= r_threshold}

\* the row r points at a sentence of the first line of the document doc
PointsAtSentence(r, doc) ==
    /\ r.line_num = 0
    /\ r.sent_num < Len(doc)
    /\ \A j \in 1..(r.sent_num + 1) : doc[j] # STOP_SENTINEL

\* C22: the lookup of the remover for a document holds exactly the stored
\* runs of that document with run_length >= threshold, and a document for
\* which only shorter runs or runs of other documents are stored is written
\* out as it was read
C22_LookupScope ==
    /\ rpc \in {"walk", "save"} =>
         /\ DOMAIN run_map = {<<r.line_num, r.sent_num>> : r \in InScope}
         /\ \A r \in InScope :
              run_map[<<r.line_num, r.sent_num>>] =
                  [hash |-> r.hash, run_length |-> r.run_length]
    /\ Saved /\ InScope = {} => w2v[file_idx] = files[file_idx]

\* a document was written out unchanged although a shorter run of its own and
\* a long enough run of the other document point at sentences of it
C22_Witness ==
    /\ Saved
    /\ w2v[file_idx] = files[file_idx]
    /\ \E r1, r2 \in repetition_runs :
         /\ r1.file_num = file_idx /\ r1.run_length < r_threshold
         /\ r2.file_num # file_idx /\ r2.run_length >= r_threshold
         /\ PointsAtSentence(r1, files[file_idx])
         /\ PointsAtSentence(r2, files[file_idx])

(* ============== properties of sent_offset ============================== *)
\* the sum of (length of the space-joined tokens + 1) over the elements of
\* doc at the indices in S
RECURSIVE RenderedLength(_, _)
RenderedLength(doc, S) ==
    IF S = {} THEN 0
    ELSE LET j == CHOOSE x \in S : TRUE
         IN  Len(Join(doc[j])) + 1 + RenderedLength(doc, S \ {j})

\* C23: the sent_offset of a row is the sum, over the non-empty sentences
\* between the last boundary marker (or the start of the document) and the
\* row's sentence, of the length of the space-joined tokens plus one; it is 0
\* for the first sentence of a line
C23_ByteOffset ==
    \A a \in DOMAIN generated :
        LET g == generated[a]
            doc == files[g.row.file_num]
        IN  /\ g.row.sent_offset =
                  RenderedLength(doc, SentencesSince(doc, g.pos))
            /\ g.row.sent_num = 0 => g.row.sent_offset = 0

\* rows were generated at a positive offset on the first line and at offset 0
\* on the second line of one document
C23_Witness ==
    \E a, b \in DOMAIN generated :
        /\ generated[a].row.file_num = generated[b].row.file_num
        /\ generated[a].row.line_num = 0
        /\ generated[a].row.sent_offset > 0
        /\ generated[b].row.line_num = 1
        /\ generated[b].row.sent_offset = 0

(* ============== properties of the materializer ========================= *)
\* the rows persisted or waiting in the buffer of the materializer
Texts == sentence_texts \cup {m_buffer[a] : a \in DOMAIN m_buffer}

\* the elements of doc that are not the boundary marker
RealSentences(doc) == {doc[k] : k \in {j \in DOMAIN doc : doc[j] # STOP_SENTINEL}}

\* C24: every persisted text hashes to its key and is the text of a sentence,
\* not a boundary marker, of a file for which that hash is stored; an
\* entry that resolves to no line, to an index out of range, to a marker or to
\* another hash persists nothing, and the pass goes on to the end, where
\* every hash stored for files on disk only has been resolved
C24_MaterializerVerified ==
    /\ \A t \in Texts :
         /\ xxh64(t.sent_text) = t.hash
         /\ \E r \in TextRows :
              /\ r.hash = t.hash
              /\ r.file_num \in DOMAIN files
              /\ \E sen \in RealSentences(files[r.file_num]) :
                   Join(sen) = t.sent_text
    /\ \A x \in resolved :
         IF x.outcome = "ok"
         THEN \E t \in Texts : t.hash = x.hash
         ELSE ~\E t \in Texts : t.hash = x.hash
    /\ mpc = "done" =>
         /\ \A a \in DOMAIN m_buffer : m_buffer[a] \in sentence_texts
         /\ \A h \in {r.hash : r \in TextRows} :
              (\A r \in TextRows : r.hash = h => r.file_num \in DOMAIN files)
                  => h \in {x.hash : x \in resolved}

\* a pass has ended that persisted a text and skipped a hash whose entry
\* pointed at a marker or at another sentence
C24_Witness ==
    /\ mpc = "done"
    /\ sentence_texts # {}
    /\ \E x \in resolved : x.outcome \in {"mismatch", "not_sentence"}

(* ============== properties of the detector's write batches ============= *)
\* C25: the run buffer of the detector holds at most batch_size rows at
\* every flush and between the flushes
C25_BoundedBatches ==
    /\ Len(batch) <= batch_size
    /\ \A k \in DOMAIN flushed : flushed[k] <= batch_size

\* the rows r1 and r2 are runs of one line of one file
SameLine(r1, r2) ==
    r1.file_num = r2.file_num /\ r1.line_num = r2.line_num

\* the intervals [sent_num, sent_num + run_length) of r1 and r2 do not meet
Disjoint(r1, r2) ==
    \/ r1.sent_num + r1.run_length <= r2.sent_num
    \/ r2.sent_num + r2.run_length <= r1.sent_num

\* C26: two runs the detector emits for one line of one file never overlap,
\* so the unique key of repetition_runs discards none of them: after the pass
\* the table holds every emitted run
C26_DisjointRuns ==
    /\ \A a, b \in DOMAIN emitted :
         a # b /\ SameLine(emitted[a], emitted[b])
             => Disjoint(emitted[a], emitted[b])
    /\ dpc = "done" =>
         /\ repetition_runs = EmittedSet
         /\ Cardinality(repetition_runs) = Len(emitted)

\* a pass has ended that emitted two runs for one line, the second starting
\* where the first ends
C26_Witness ==
    /\ dpc = "done"
    /\ \E a, b \in DOMAIN emitted :
         /\ a # b
         /\ SameLine(emitted[a], emitted[b])
         /\ emitted[a].sent_num + emitted[a].run_length = emitted[b].sent_num

(* ============== properties of the remover's walk ======================= *)
\* the visits of the walk at a run whose slice passes the end of the document
PastEnd == {v \in visits : ~v.bounds}

\* C27: at a run start whose slice passes the end of the document the walk
\* stops: the element at that index and every later one are absent from the
\* output, and the output as it stands is written as the cleaned document
C27_SlicePastEnd ==
    \A v \in PastEnd :
        /\ rpc # "walk"
        /\ i = v.i
        /\ \A k \in KeptSet : k < v.i
        /\ Len(output_list) = Len(kept)
        /\ rpc \in {"load", "done"} => Saved /\ w2v[file_idx] = output_list

\* a truncated document was written: the walk stopped at a run start with
\* elements before it in the output and a boundary marker after it
C27_Witness ==
    /\ Saved
    /\ w2v[file_idx] # << >>
    /\ \E v \in PastEnd :
         \E k \in (v.i + 2)..n : sentence_list[k] = STOP_SENTINEL

\* the input indices (0-based) of the slice of length len that starts at p
SliceAt(p, len) == p .. (p + len - 1)

\* a verified run starts at input index p: its coordinate is in the lookup,
\* its slice ends within the document and every sentence of it has the hash
VerifiedAt(p) ==
    /\ p < n
    /\ CoordOf(sentence_list, p) \in DOMAIN run_map
    /\ LET run == run_map[CoordOf(sentence_list, p)]
       IN  /\ p + run.run_length <= n
           /\ AllMatch(sentence_list, p, run.run_length, run.hash)

\* C28: at every step of the walk sent_num is the number of elements of the
\* input between the last boundary marker (or the document start) and the
\* cursor, whatever was elided before; and two verified runs of one line
\* that do not overlap are both absent from the saved document
C28_CoordinatesAligned ==
    /\ rpc = "walk" => sent_num = CoordOf(sentence_list, i)[2]
    /\ Saved =>
         \A p, q \in 0..(n - 1) :
             /\ p < q
             /\ VerifiedAt(p)
             /\ VerifiedAt(q)
             /\ CoordOf(sentence_list, p)[1] = CoordOf(sentence_list, q)[1]
             /\ p + run_map[CoordOf(sentence_list, p)].run_length <= q
             => KeptSet \cap
                  (SliceAt(p, run_map[CoordOf(sentence_list, p)].run_length) \cup
                   SliceAt(q, run_map[CoordOf(sentence_list, q)].run_length)) = {}

(* ============== properties of the detector's two thresholds ============ *)
\* C29: a hash with a maximal run of at least threshold rows in the index
\* passes the candidate filter of the same threshold; when the pass has ended
\* it has been scanned and its run is stored
C29_LosslessFilter ==
    /\ dpc \in {"scan", "done"} =>
         \A r \in MaximalBlocks(d_threshold) :
             r.hash \in CandidateHashes(d_threshold)
    /\ dpc = "done" =>
         \A r \in MaximalBlocks(d_threshold) :
             /\ r.hash \in ScanSet
             /\ r \in repetition_runs

\* a pass has ended over an index in which a hash occurs exactly threshold
\* times, all in one run, next to a hash the filter leaves out
C29_Witness ==
    /\ dpc = "done"
    /\ \E r \in MaximalBlocks(d_threshold) :
         /\ r.run_length = d_threshold
         /\ Cardinality({q \in sentences : q.hash = r.hash}) = d_threshold
         /\ r \in repetition_runs
    /\ {q.hash : q \in sentences} \ CandidateHashes(d_threshold) # {}

(* ============== termination of the remover's walk ====================== *)
\* the while loop of the document at hand is at its test with i < n
Walking == rpc = "walk" /\ i < n

\* the cursor moves forward with every iteration that does not break
CursorAdvances == rpc = "walk" /\ rpc' = "walk" => i' > i

\* C30: the walk over a document ends: every iteration breaks or moves the
\* cursor forward, the cursor never passes the end by more than nothing, and
\* a walk under way leads to the end of the loop (break, or i >= n)
C30_WalkTerminates ==
    /\ [][CursorAdvances]_vars
    /\ [](rpc = "walk" => i <= n)
    /\ Walking ~> ~Walking

\* a walk has ended at i = n after it skipped a run and copied a sentence
C30_Witness ==
    /\ rpc = "walk"
    /\ i = n
    /\ kept # << >>
    /\ \E v \in visits : v.bounds /\ v.run_length >= 1
=============================================================================
